---- MODULE Spec2Model ----
(***************************************************************************)
(* Multi-tenant request pipeline of the patient task logger backend.       *)
(*                                                                         *)
(* State: the tables of migrations 001/002 (hospitals, users, patients,    *)
(* task_logs), the app.current_hospital_id session variable of every       *)
(* pooled connection, and the requests in flight (req.user,                *)
(* req.hospitalId, position in the middleware chain, response).            *)
(*                                                                         *)
(* One step of a request is the code between two awaits: the query the     *)
(* await waits for runs atomically on a connection the pool picks, and     *)
(* the synchronous continuation runs with it.                              *)
(***************************************************************************)
EXTENDS Integers, FiniteSets, TLC

\* ---------------------------------------------------------------- bounds
NumSlots == 2        \* requests in flight at once
NumConns == 2        \* connections of the pool that get used
NumHospitals == 2    \* rows of hospitals
MaxPatients == 2     \* values drawn from patients_id_seq
MaxTaskLogs == 2     \* values drawn from task_logs_id_seq
MaxNewUsers == 2     \* users the register endpoint creates

Slots == 1..NumSlots
Conns == 1..NumConns
HospitalIds == 1..NumHospitals

\* ------------------------------------------------------- value encodings
NULL == 0            \* SQL NULL / JS null (ids are SERIAL, so >= 1)
UNDEF == 0 - 1       \* JS undefined (req.hospitalId before it is assigned,
                     \* the session variable before any SET)
NoToken == 0         \* no Authorization header
BadToken == 0 - 1    \* a token jwt.verify rejects
Absent == 0          \* header / path parameter / query parameter not sent
NoQuery == 0 - 2     \* the request has run no query on patients / task_logs
Unread == 0 - 3      \* a header / path parameter the code has not read yet

\* hospitals.code is UNIQUE; the code of hospital h is modelled as CodeBase + h
CodeBase == 100
CodeOf(h) == CodeBase + h
UnknownCode == CodeBase
Codes == {UnknownCode} \cup {CodeOf(h) : h \in HospitalIds}

UserIds == 1..4
GhostUser == 5       \* a userId no row of users has
Tokens == {NoToken, BadToken, GhostUser} \cup UserIds
\* The multi-tenant router never reads the role of a stored user (the CHECK
\* of users.role admits no super_admin), so one user per hospital suffices.
MtTokens == {NoToken, BadToken, GhostUser, 1, 2, 3}
\* The task-logs router reads the role, the id and no hospital_id: an admin
\* of each hospital and a clinician.
TlTokens == {NoToken, BadToken, GhostUser, 2, 3, 4}

MRNs == {"M1", "M2"}
NoSearch == ""       \* no search parameter in the query string
PatientIds == 1..MaxPatients
TaskLogIds == 1..MaxTaskLogs
Rooms == {NULL, 7}   \* room_number values
Notes == {NULL, 9}   \* notes values
CreateNotes == {NULL} \* creates send no notes: notes || null
CreateRooms == {NULL} \* creates send no roomNumber: roomNumber || null
Roles == {"clinician", "admin", "super_admin"}

\* users.email is UNIQUE: the users of the initial table have the first four
\* addresses, registrations use one of those and two new ones.
InitEmails == <<"e1", "e2", "e3", "e4">>
RegisterEmails == {"e2", "n1", "n2"}
Passwords == {"pw", "other"}
NewUserIds == (GhostUser + 1)..(GhostUser + MaxNewUsers)
NoHospital == NumHospitals + 1   \* an id no row of hospitals has

\* bcrypt.hash and bcrypt.compare: a hash matches the password it was made
\* from and no other (the salt is left out).
Hash(password) == <<"bcrypt", password>>
Compare(password, hash) == hash = Hash(password)

VARIABLES
    hospitals,    \* hospitals: id -> [code, active]
    users,        \* users: id -> [role, hospital_id]
    patients,     \* set of rows [id, hospital_id, mrn, room]
    task_logs,    \* set of rows [id, patient_id, user_id, hospital_id, notes]
    nextPid,      \* patients_id_seq
    nextTid,      \* task_logs_id_seq
    rls,          \* TRUE iff the role the pool connects as is subject to the
                  \* row level security policies (table owners bypass them)
    sessionVar,   \* connection -> app.current_hospital_id of that session
    reqs          \* slot -> request in flight

vars == <<hospitals, users, patients, task_logs, nextPid, nextTid, rls,
          sessionVar, reqs>>

dbVars == <<hospitals, users, patients, task_logs, nextPid, nextTid, rls>>

\* ------------------------------------------------------------- requests
NoUser == [id |-> NULL, role |-> "none", hospital_id |-> NULL]

\* user.rows[0] of a handler that has selected no row
NoRow == [id |-> NULL]

IdleReq ==
    [router |-> "none", route |-> "none", pc |-> "idle", token |-> NoToken, header |-> Unread,
     path |-> Unread, id |-> 0, tid |-> 0, mrn |-> "M1", room |-> NULL,
     notes |-> NULL, bodyHid |-> Absent,
     email |-> "", password |-> "", found |-> NoRow,
     valid |-> TRUE,
     user |-> NoUser, hospitalId |-> UNDEF,
     checked |-> FALSE, qvar |-> NoQuery, hit |-> {},
     status |-> 0, body |-> "", rPatients |-> {}, rLogs |-> {}]

\* The values an input of the request can have: the one fixed when the
\* request arrived, or any value as long as nothing has read it.
Sent(x) == IF x = Unread THEN {Absent} \cup Codes ELSE {x}

\* SQL "a = b": never true when either side is NULL
SqlEq(a, b) == a # NULL /\ b # NULL /\ a = b

\* JS truthiness of an id-valued expression (null, undefined and 0 are falsy)
Truthy(x) == x # NULL /\ x # UNDEF

\* ------------------------------------------------------------ database
\* migrations/001 inserts the admin of the clinic before hospital_id exists,
\* so that row has hospital_id NULL; the other rows are users the register
\* endpoint can create (role clinician or admin, an existing hospital).
UsersInit ==
    [u \in UserIds |->
        [role |-> IF u = 4 THEN "clinician" ELSE "admin",
         hospital_id |-> CASE u = 1 -> NULL
                           [] u = 3 -> 2
                           [] OTHER -> 1,
         email |-> InitEmails[u],
         password_hash |-> Hash("pw")]]

\* The policies *_hospital_isolation: a row is visible to (and writable by)
\* a session iff its hospital_id equals the session's app.current_hospital_id.
Visible(c, hid) == ~rls \/ SqlEq(hid, sessionVar[c])

\* current_setting('app.current_hospital_id') raises when the session never
\* SET the variable, so a statement the policy applies to fails.
PolicyError(c) == rls /\ sessionVar[c] = UNDEF

\* The lookup as it would be with a hospital_isolation policy on hospitals,
\* run on the first connection of the pool.
HospitalByCodeUnderPolicy(code) ==
    {h \in DOMAIN hospitals :
        hospitals[h].code = code /\ hospitals[h].active /\ Visible(1, h)}

\* SELECT id FROM hospitals WHERE code = $1 AND active = true
HospitalByCode(code) ==
    {h \in DOMAIN hospitals : hospitals[h].code = code /\ hospitals[h].active}

\* The lookup as a LEFT JOIN that keeps a user without a hospital.
UserWithHospitalLeftJoin(c, uid) ==
    {u \in DOMAIN users :
        /\ u = uid
        /\ Visible(c, users[u].hospital_id) \/ users[u].hospital_id = NULL
        /\ \/ users[u].hospital_id = NULL
           \/ \E h \in DOMAIN hospitals :
                 SqlEq(users[u].hospital_id, h) /\ hospitals[h].active}

\* users u JOIN hospitals h ON u.hospital_id = h.id WHERE u.id = $1 AND h.active
UserWithHospital(c, uid) ==
    {u \in DOMAIN users :
        /\ u = uid
        /\ Visible(c, users[u].hospital_id)
        /\ \E h \in DOMAIN hospitals :
              SqlEq(users[u].hospital_id, h) /\ hospitals[h].active}

\* SELECT ... FROM users WHERE id = $1
UserById(c, uid) ==
    {u \in DOMAIN users : u = uid /\ Visible(c, users[u].hospital_id)}

\* The role login signed into the token: the role of the row when the token
\* was issued.
TokenRole(tok) == UsersInit[tok].role

\* req.user with the role taken from the token payload.
UserRowFromToken(u) == [id |-> u, role |-> TokenRole(u),
                        hospital_id |-> users[u].hospital_id]

UserRow(u) == [id |-> u, role |-> users[u].role,
               hospital_id |-> users[u].hospital_id]

\* ------------------------------------------------------------ responses
\* res.json() runs in the same callback as the step that decides the answer:
\* the response leaves (Finish) before the event loop runs another callback.
Flushed == \A s \in Slots : reqs[s].pc # "done"

\* An arriving request takes the lowest free slot.
Arrives(r) ==
    /\ Flushed
    /\ reqs[r].pc = "idle"
    /\ \A s \in Slots : s < r => reqs[s].pc # "idle"

\* Request r is at position pc of its chain and the event loop is free.
At(r, pc) == Flushed /\ reqs[r].pc = pc

\* A branch that answers without return, so that next() runs as well.
ReplyAndNext(r, st, msg) ==
    reqs' = [reqs EXCEPT ![r] = [@ EXCEPT !.pc = "check", !.status = st,
                                          !.body = msg]]

Reply(r, st, msg) ==
    reqs' = [reqs EXCEPT ![r] = [@ EXCEPT !.pc = "done", !.status = st,
                                          !.body = msg]]

ReplyRows(r, st, msg, c, pats, logs) ==
    reqs' = [reqs EXCEPT ![r] = [@ EXCEPT !.pc = "done", !.status = st,
                                          !.body = msg,
                                          !.qvar = sessionVar[c],
                                          !.rPatients = pats,
                                          !.rLogs = logs]]

\* router.use(...) layers run before the router matches a route: the route
\* handler is the layer next() reaches after the last middleware.
RoutesOf(router) ==
    CASE router = "mt" -> {"mt_list", "mt_create", "mt_analytics"}
      [] router = "mt_get" -> {"mt_list", "mt_analytics"}
      [] router = "patients" ->
            {"p_list", "p_get", "p_create", "p_delete", "p_put"}
      [] router = "tasklogs" ->
            {"tl_list", "tl_get", "tl_create", "tl_put", "tl_delete",
             "tl_patient"}
      [] OTHER -> {"none"}

\* --------------------------------------------- middleware/hospital.js
\* authWithHospital: a request arrives and is authenticated.  The request
\* carries one of the given X-Hospital-Code headers and hospitalCode path
\* parameters.
AuthWithHospitalFrom(r, router, headers, paths) ==
    /\ Arrives(r)
    /\ \E tok \in MtTokens, c \in Conns, hdr \in headers, pth \in paths :
        LET q == [reqs[r] EXCEPT !.router = router, !.token = tok,
                                 !.header = hdr, !.path = pth]
            deny(msg) == reqs' = [reqs EXCEPT ![r] =
                            [q EXCEPT !.pc = "done", !.status = 401,
                                      !.body = msg]]
        IN  IF tok = NoToken
              THEN deny("No token, authorization denied")
            ELSE IF tok = BadToken \/ PolicyError(c)
              THEN deny("Token is not valid")
            ELSE IF UserWithHospital(c, tok) = {}
              THEN deny("Token is not valid or hospital inactive")
            ELSE reqs' = [reqs EXCEPT ![r] =
                            [q EXCEPT !.pc = "ctx", !.user = UserRow(tok)]]
    /\ UNCHANGED <<dbVars, sessionVar>>

AuthWithHospital(r) == AuthWithHospitalFrom(r, "mt", {Unread}, {Unread})

\* GET traffic to the multi-tenant router with every combination of header
\* and path parameter.
AuthWithHospitalGet(r) ==
    AuthWithHospitalFrom(r, "mt_get", {Absent} \cup Codes, {Absent} \cup Codes)

\* The lookup without AND active = true.
ResolveCodeAnyHospital(code) ==
    IF \A h \in DOMAIN hospitals : hospitals[h].code # code THEN NULL
    ELSE CHOOSE h \in DOMAIN hospitals : hospitals[h].code = code

\* The tenant setHospitalContext resolves from a header or path code:
\* the id of the active hospital with that code, or NULL when there is none.
ResolveCode(code) ==
    IF HospitalByCode(code) = {} THEN NULL
    ELSE CHOOSE h \in HospitalByCode(code) : TRUE

\* setHospitalContext up to the assignment of req.hospitalId (lines 22-65).
SetHospitalContext(r) ==
    /\ At(r, "ctx")
    /\ \E hdr \in Sent(reqs[r].header), pth \in Sent(reqs[r].path) :
        LET u == reqs[r].user
            bind(q, h) == reqs' = [reqs EXCEPT ![r] =
                            [q EXCEPT !.pc = "ctxSet", !.hospitalId = h]]
            fail(q, st, msg) == reqs' = [reqs EXCEPT ![r] =
                            [q EXCEPT !.pc = "done", !.status = st,
                                      !.body = msg]]
            qh == [reqs[r] EXCEPT !.header = hdr]
            qp == [reqs[r] EXCEPT !.header = hdr, !.path = pth]
        IN  IF Truthy(u.hospital_id)
              THEN bind(reqs[r], u.hospital_id)
            ELSE IF hdr # Absent
              THEN IF ResolveCode(hdr) = NULL
                     THEN fail(qh, 400, "Invalid hospital code")
                     ELSE bind(qh, ResolveCode(hdr))
            ELSE IF pth # Absent
              THEN IF ResolveCode(pth) = NULL
                     THEN fail(qp, 404, "Hospital not found")
                     ELSE bind(qp, ResolveCode(pth))
            ELSE fail(qp, 400, "Hospital context required")
    /\ UNCHANGED <<dbVars, sessionVar>>

\* setHospitalContext, line 68: SET app.current_hospital_id on the connection
\* pool.query happens to run on; then next().
SetSessionVariable(r) ==
    /\ At(r, "ctxSet")
    /\ \E c \in Conns :
        sessionVar' = [sessionVar EXCEPT ![c] = reqs[r].hospitalId]
    /\ reqs' = [reqs EXCEPT ![r].pc = "check"]
    /\ UNCHANGED dbVars

\* checkHospitalAccess letting every admin through as well.
AccessAllowedAdmins(user, requestedHospitalId) ==
    \/ user.role \in {"super_admin", "admin"}
    \/ user.hospital_id = requestedHospitalId

\* checkHospitalAccess: TRUE iff it calls next().
AccessAllowed(user, requestedHospitalId) ==
    \/ user.role = "super_admin"
    \/ user.hospital_id = requestedHospitalId

CheckHospitalAccess(r) ==
    /\ At(r, "check")
    /\ IF reqs[r].user = NoUser
         THEN \* req.user.hospital_id throws; the catch block answers
              reqs' = [reqs EXCEPT ![r] =
                 [@ EXCEPT !.pc = "done", !.checked = TRUE, !.status = 500,
                           !.body = "Authorization check failed"]]
       ELSE IF AccessAllowed(reqs[r].user, reqs[r].hospitalId)
         THEN \E route \in RoutesOf(reqs[r].router) :
                reqs' = [reqs EXCEPT ![r].pc = "handler", ![r].route = route,
                                     ![r].checked = TRUE]
         ELSE reqs' = [reqs EXCEPT ![r] =
                 [@ EXCEPT !.pc = "done", !.checked = TRUE, !.status = 403,
                    !.body = "Access denied: You can only access your assigned hospital"]]
    /\ UNCHANGED <<dbVars, sessionVar>>

\* ------------------------------------------ routes/patients-multitenant.js
\* GET / without its WHERE p.hospital_id = $1, leaving the filtering to the
\* row level security policy of the session.
ListQueryPolicyOnly(c, hospitalId, search) ==
    {p \in patients :
        /\ Visible(c, p.hospital_id)
        /\ (search = NoSearch \/ p.mrn = search)}

\* The rows GET / selects: WHERE p.hospital_id = $1 [AND ... ILIKE search].
\* MaxPatients is below the default LIMIT of 20, so page 1 holds every row.
ListQuery(c, hospitalId, search) ==
    {p \in patients :
        /\ SqlEq(p.hospital_id, hospitalId)
        /\ Visible(c, p.hospital_id)
        /\ (search = NoSearch \/ p.mrn = search)}

MtList(r) ==
    /\ At(r, "handler") /\ reqs[r].route = "mt_list"
    /\ \E c \in Conns, search \in {NoSearch} \cup MRNs :
        IF PolicyError(c)
          THEN Reply(r, 500, "Server error")
          ELSE ReplyRows(r, 200, "patients", c,
                         ListQuery(c, reqs[r].hospitalId, search), {})
    /\ UNCHANGED <<dbVars, sessionVar>>

\* SELECT id FROM patients WHERE medical_record_number = $1 AND hospital_id = $2
MrnInHospital(c, mrn, hospitalId) ==
    {p \in patients :
        p.mrn = mrn /\ SqlEq(p.hospital_id, hospitalId)
        /\ Visible(c, p.hospital_id)}

\* requireRole(roles): TRUE iff it answers 403 instead of calling next().
RoleDenied(user, roles) == user.role \notin roles

\* POST /: requireRole (patients.js only), validation, the check that the
\* user has a hospital (patients.js only) and the existence check.
CreateCheck(r, route, tenant, roles, needsHospital) ==
    /\ At(r, "handler") /\ reqs[r].route = route
    /\ \E c \in Conns, valid \in BOOLEAN, mrn \in MRNs :
        LET q == [reqs[r] EXCEPT !.valid = valid]
            end(st, msg) == reqs' = [reqs EXCEPT ![r] =
                      [q EXCEPT !.pc = "done", !.status = st, !.body = msg]]
        IN  IF RoleDenied(reqs[r].user, roles)
              THEN Reply(r, 403, "Access denied: insufficient permissions")
            ELSE IF ~valid
              THEN end(400, "validation errors")
            ELSE IF needsHospital /\ ~Truthy(tenant)
              THEN end(400, "User is not assigned to a hospital")
            ELSE IF PolicyError(c)
              THEN end(500, "Server error")
            ELSE IF MrnInHospital(c, mrn, tenant) # {}
              THEN reqs' = [reqs EXCEPT ![r] =
                      [q EXCEPT !.pc = "done", !.status = 400, !.mrn = mrn,
                                !.qvar = sessionVar[c],
                                !.body = "Medical record number already exists in this hospital"]]
            ELSE reqs' = [reqs EXCEPT ![r] =
                      [q EXCEPT !.pc = "insert", !.mrn = mrn,
                                !.qvar = sessionVar[c]]]
    /\ UNCHANGED <<dbVars, sessionVar>>

\* An INSERT that trusts the hospitalId of the body when there is one.
InsertHospitalIdFromBody(tenant, bodyHid) ==
    IF bodyHid # Absent THEN bodyHid ELSE tenant

\* The hospital_id the INSERT of POST / stores: the request's tenant, never
\* the hospitalId of the body.
InsertHospitalId(tenant, bodyHid) == tenant

\* A patients table without the UNIQUE constraint.
MrnNotConstrained(mrn) == FALSE

\* medical_record_number VARCHAR(50) UNIQUE NOT NULL: TRUE iff an INSERT of
\* the number violates the constraint.  The index spans the rows of every
\* hospital, whatever the policy of the session shows.
MrnTaken(mrn) == \E p \in patients : p.mrn = mrn

\* POST /: INSERT INTO patients ... RETURNING *.  The statement fails on the
\* UNIQUE constraint of medical_record_number (001_initial_schema.sql) and on
\* a row the policy of the session does not admit.
CreateInsert(r, route, tenant) ==
    /\ At(r, "insert") /\ reqs[r].route = route
    /\ nextPid <= MaxPatients
    /\ \E c \in Conns, room \in CreateRooms, bodyHid \in {Absent} \cup HospitalIds :
        LET hid == InsertHospitalId(tenant, bodyHid)
            row == [id |-> nextPid, hospital_id |-> hid,
                    mrn |-> reqs[r].mrn, room |-> room]
        IN  IF \/ PolicyError(c)
               \/ ~Visible(c, hid)
               \/ MrnTaken(reqs[r].mrn)
              THEN /\ Reply(r, 500, "Server error")
                   /\ UNCHANGED patients
              ELSE /\ patients' = patients \cup {row}
                   /\ reqs' = [reqs EXCEPT ![r] =
                         [@ EXCEPT !.pc = "done", !.status = 201,
                                   !.body = "Patient created successfully",
                                   !.bodyHid = bodyHid, !.room = room,
                                   !.qvar = sessionVar[c],
                                   !.rPatients = {row}]]
    /\ nextPid' = nextPid + 1
    /\ UNCHANGED <<hospitals, users, task_logs, nextTid, rls, sessionVar>>

MtCreateCheck(r) ==
    CreateCheck(r, "mt_create", reqs[r].hospitalId, Roles \cup {"none"}, FALSE)

MtCreateInsert(r) == CreateInsert(r, "mt_create", reqs[r].hospitalId)

\* GET /analytics: the patients and task logs the aggregates range over
\* (every row is inside the timeframe).
AnalyticsPatients(c, hospitalId) ==
    {p \in patients : SqlEq(p.hospital_id, hospitalId) /\ Visible(c, p.hospital_id)}

AnalyticsLogs(c, hospitalId) ==
    {tl \in task_logs :
        /\ \E p \in AnalyticsPatients(c, hospitalId) : tl.patient_id = p.id
        /\ SqlEq(tl.hospital_id, hospitalId)
        /\ Visible(c, tl.hospital_id)}

MtAnalytics(r) ==
    /\ At(r, "handler") /\ reqs[r].route = "mt_analytics"
    /\ \E c \in Conns :
        IF PolicyError(c)
          THEN Reply(r, 500, "Server error")
          ELSE ReplyRows(r, 200, "analytics", c,
                         AnalyticsPatients(c, reqs[r].hospitalId),
                         AnalyticsLogs(c, reqs[r].hospitalId))
    /\ UNCHANGED <<dbVars, sessionVar>>

\* ------------------------------------------------- middleware/auth.js
\* auth: a request to the patients or task-logs router arrives and is
\* authenticated; next() reaches the route the URL names.
Auth(r, router, routes, tokens) ==
    /\ Arrives(r)
    /\ \E tok \in tokens, c \in Conns :
        LET q == [reqs[r] EXCEPT !.router = router, !.token = tok]
            deny(msg) == reqs' = [reqs EXCEPT ![r] =
                            [q EXCEPT !.pc = "done", !.status = 401,
                                      !.body = msg]]
        IN  IF tok = NoToken
              THEN deny("No token, authorization denied")
            ELSE IF tok = BadToken \/ PolicyError(c) \/ UserById(c, tok) = {}
              THEN deny("Token is not valid")
            ELSE \E route \in routes :
                    reqs' = [reqs EXCEPT ![r] =
                            [q EXCEPT !.pc = "handler", !.route = route,
                                      !.user = UserRow(tok)]]
    /\ UNCHANGED <<dbVars, sessionVar>>

AuthPatients(r) == Auth(r, "patients", RoutesOf("patients"), Tokens)

\* Traffic to the patients router that is POST / only.
AuthPatientCreate(r) == Auth(r, "patients", {"p_create"}, Tokens)

AuthTaskLogs(r) == Auth(r, "tasklogs", RoutesOf("tasklogs"), TlTokens)


\* ------------------------------------------------- routes/patients.js
\* GET /: SELECT ... FROM patients ORDER BY last_name, first_name
PList(r) ==
    /\ At(r, "handler") /\ reqs[r].route = "p_list"
    /\ \E c \in Conns :
        IF PolicyError(c)
          THEN Reply(r, 500, "Server error")
          ELSE ReplyRows(r, 200, "patients", c,
                         {p \in patients : Visible(c, p.hospital_id)}, {})
    /\ UNCHANGED <<dbVars, sessionVar>>

\* SELECT * FROM patients WHERE id = $1
PatientById(c, id) ==
    {p \in patients : p.id = id /\ Visible(c, p.hospital_id)}

\* GET /:id
PGet(r) ==
    /\ At(r, "handler") /\ reqs[r].route = "p_get"
    /\ \E c \in Conns, id \in PatientIds :
        LET q == [reqs[r] EXCEPT !.id = id, !.pc = "done"]
        IN  IF PolicyError(c)
              THEN reqs' = [reqs EXCEPT ![r] =
                      [q EXCEPT !.status = 500, !.body = "Server error"]]
            ELSE IF PatientById(c, id) = {}
              THEN reqs' = [reqs EXCEPT ![r] =
                      [q EXCEPT !.status = 404, !.body = "Patient not found",
                                !.qvar = sessionVar[c]]]
            ELSE reqs' = [reqs EXCEPT ![r] =
                      [q EXCEPT !.status = 200, !.body = "patient",
                                !.qvar = sessionVar[c],
                                !.rPatients = PatientById(c, id)]]
    /\ UNCHANGED <<dbVars, sessionVar>>

\* POST /
PCreateCheck(r) ==
    CreateCheck(r, "p_create", reqs[r].user.hospital_id, {"admin"}, TRUE)

PCreateInsert(r) == CreateInsert(r, "p_create", reqs[r].user.hospital_id)

\* DELETE /:id decides on the row it selected: TRUE iff it answers 403.
DeleteDenied(row, user) == row.hospital_id # user.hospital_id

\* DELETE /:id: requireRole, the existence check and the hospital check.
PDeleteCheck(r) ==
    /\ At(r, "handler") /\ reqs[r].route = "p_delete"
    /\ \E c \in Conns, id \in PatientIds :
        LET q == [reqs[r] EXCEPT !.id = id]
            end(st, msg) == reqs' = [reqs EXCEPT ![r] =
                      [q EXCEPT !.pc = "done", !.status = st, !.body = msg,
                                !.qvar = sessionVar[c]]]
        IN  IF RoleDenied(reqs[r].user, {"admin"})
              THEN Reply(r, 403, "Access denied: insufficient permissions")
            ELSE IF PolicyError(c)
              THEN reqs' = [reqs EXCEPT ![r] =
                      [q EXCEPT !.pc = "done", !.status = 500,
                                !.body = "Server error"]]
            ELSE IF PatientById(c, id) = {}
              THEN end(404, "Patient not found")
            ELSE IF \E p \in PatientById(c, id) : DeleteDenied(p, reqs[r].user)
              THEN end(403, "Access denied")
            ELSE reqs' = [reqs EXCEPT ![r] =
                      [q EXCEPT !.pc = "write", !.qvar = sessionVar[c]]]
    /\ UNCHANGED <<dbVars, sessionVar>>

\* DELETE FROM patients WHERE id = $1 RETURNING *; ON DELETE CASCADE removes
\* the task logs of the patient.
PDeleteRun(r) ==
    /\ At(r, "write") /\ reqs[r].route = "p_delete"
    /\ \E c \in Conns :
        LET gone == PatientById(c, reqs[r].id)
        IN  IF PolicyError(c)
              THEN /\ Reply(r, 500, "Server error")
                   /\ UNCHANGED <<patients, task_logs>>
              ELSE /\ patients' = patients \ gone
                   /\ task_logs' = {tl \in task_logs :
                                      \A p \in gone : tl.patient_id # p.id}
                   /\ reqs' = [reqs EXCEPT ![r] =
                         [@ EXCEPT !.pc = "done", !.status = 200,
                                   !.body = "Patient deleted successfully",
                                   !.qvar = sessionVar[c],
                                   !.hit = {p.hospital_id : p \in gone},
                                   !.rPatients = gone]]
    /\ UNCHANGED <<hospitals, users, nextPid, nextTid, rls, sessionVar>>

\* PUT /:id: the rows UPDATE patients ... WHERE id = $n changes.  The handler
\* selects by id alone.
PutTargets(c, id, user) == PatientById(c, id)

\* An UPDATE that also moves the row to the hospital of the user.
PutRowToUserHospital(p, room, user) ==
    [p EXCEPT !.room = room, !.hospital_id = user.hospital_id]

\* The row the UPDATE of PUT /:id leaves: the SET list names first_name,
\* last_name, room_number, date_of_birth and updated_at, nothing else.
PutRow(p, room, user) == [p EXCEPT !.room = room]

\* PUT /:id: requireRole, validation, the dynamic SET list, the UPDATE.
\* Of the body only roomNumber is modelled: UNDEF is a body without fields.
PPut(r) ==
    /\ At(r, "handler") /\ reqs[r].route = "p_put"
    /\ \E c \in Conns, id \in PatientIds, valid \in BOOLEAN,
          room \in {UNDEF} \cup Rooms :
        LET q == [reqs[r] EXCEPT !.id = id, !.valid = valid, !.pc = "done"]
            old == PutTargets(c, id, reqs[r].user)
            new == {PutRow(p, room, reqs[r].user) : p \in old}
            end(st, msg) == /\ reqs' = [reqs EXCEPT ![r] =
                                  [q EXCEPT !.status = st, !.body = msg]]
                            /\ UNCHANGED patients
        IN  IF RoleDenied(reqs[r].user, {"admin"})
              THEN /\ Reply(r, 403, "Access denied: insufficient permissions")
                   /\ UNCHANGED patients
            ELSE IF ~valid
              THEN end(400, "validation errors")
            ELSE IF room = UNDEF
              THEN end(400, "No valid fields to update")
            ELSE IF PolicyError(c)
              THEN end(500, "Server error")
            ELSE IF old = {}
              THEN /\ reqs' = [reqs EXCEPT ![r] =
                         [q EXCEPT !.status = 404, !.body = "Patient not found",
                                   !.qvar = sessionVar[c]]]
                   /\ UNCHANGED patients
            ELSE /\ patients' = (patients \ old) \cup new
                 /\ reqs' = [reqs EXCEPT ![r] =
                       [q EXCEPT !.status = 200,
                                 !.body = "Patient updated successfully",
                                 !.room = room, !.qvar = sessionVar[c],
                                 !.hit = {p.hospital_id : p \in old},
                                 !.rPatients = new]]
    /\ UNCHANGED <<hospitals, users, task_logs, nextPid, nextTid, rls,
                   sessionVar>>

\* ------------------------------------------------- routes/tasklogs.js
\* FROM task_logs tl JOIN patients p ON tl.patient_id = p.id
\*                   JOIN users u ON tl.user_id = u.id
JoinedLogs(c) ==
    {tl \in task_logs :
        /\ Visible(c, tl.hospital_id)
        /\ \E p \in patients : p.id = tl.patient_id /\ Visible(c, p.hospital_id)
        /\ \E u \in DOMAIN users :
              u = tl.user_id /\ Visible(c, users[u].hospital_id)}

\* GET /: of the filters only patientId is modelled; MaxTaskLogs is below
\* the default LIMIT of 50.
TlList(r) ==
    /\ At(r, "handler") /\ reqs[r].route = "tl_list"
    /\ \E c \in Conns, patientId \in {Absent} \cup PatientIds :
        IF PolicyError(c)
          THEN Reply(r, 500, "Server error")
          ELSE ReplyRows(r, 200, "taskLogs", c, {},
                  {tl \in JoinedLogs(c) :
                      patientId = Absent \/ tl.patient_id = patientId})
    /\ UNCHANGED <<dbVars, sessionVar>>

\* ... WHERE tl.id = $1
FullTaskLog(c, id) == {tl \in JoinedLogs(c) : tl.id = id}

\* GET /:id
TlGet(r) ==
    /\ At(r, "handler") /\ reqs[r].route = "tl_get"
    /\ \E c \in Conns, id \in TaskLogIds :
        LET q == [reqs[r] EXCEPT !.id = id, !.pc = "done"]
        IN  IF PolicyError(c)
              THEN reqs' = [reqs EXCEPT ![r] =
                      [q EXCEPT !.status = 500, !.body = "Server error"]]
            ELSE IF FullTaskLog(c, id) = {}
              THEN reqs' = [reqs EXCEPT ![r] =
                      [q EXCEPT !.status = 404, !.body = "Task log not found",
                                !.qvar = sessionVar[c]]]
            ELSE reqs' = [reqs EXCEPT ![r] =
                      [q EXCEPT !.status = 200, !.body = "taskLog",
                                !.qvar = sessionVar[c],
                                !.rLogs = FullTaskLog(c, id)]]
    /\ UNCHANGED <<dbVars, sessionVar>>

\* POST /: validation and "Verify patient exists".
TlCreateCheck(r) ==
    /\ At(r, "handler") /\ reqs[r].route = "tl_create"
    /\ \E c \in Conns, valid \in BOOLEAN, patientId \in PatientIds :
        LET q == [reqs[r] EXCEPT !.valid = valid]
            end(st, msg) == reqs' = [reqs EXCEPT ![r] =
                      [q EXCEPT !.pc = "done", !.status = st, !.body = msg]]
        IN  IF ~valid
              THEN end(400, "validation errors")
            ELSE IF PolicyError(c)
              THEN end(500, "Server error")
            ELSE IF PatientById(c, patientId) = {}
              THEN reqs' = [reqs EXCEPT ![r] =
                      [q EXCEPT !.pc = "done", !.status = 400,
                                !.body = "Patient not found",
                                !.id = patientId, !.qvar = sessionVar[c]]]
            ELSE reqs' = [reqs EXCEPT ![r] =
                      [q EXCEPT !.pc = "insert", !.id = patientId,
                                !.qvar = sessionVar[c]]]
    /\ UNCHANGED <<dbVars, sessionVar>>

\* The INSERT without the trigger: it names no hospital_id, the column stays
\* NULL.
NoTriggerHospitalId(c, patientId) == NULL

\* trigger_set_task_log_hospital_id: SELECT hospital_id INTO NEW.hospital_id
\* FROM patients WHERE id = NEW.patient_id (NULL when no row is selected).
TriggerHospitalId(c, patientId) ==
    IF PatientById(c, patientId) = {} THEN NULL
    ELSE (CHOOSE p \in PatientById(c, patientId) : TRUE).hospital_id

\* A task_logs table whose patient_id references nothing.
PatientNotReferenced(patientId) == FALSE

\* patient_id INTEGER REFERENCES patients(id): TRUE iff an INSERT with the
\* patient_id violates the foreign key.  The check sees every row of
\* patients, whatever the policy of the session shows.
PatientGone(patientId) == ~\E p \in patients : p.id = patientId

\* POST /: INSERT INTO task_logs ... RETURNING *.  The statement fails when
\* the patient is gone (patient_id REFERENCES patients), the user is gone
\* (user_id REFERENCES users) or the policy does not admit the new row.
TlCreateInsert(r) ==
    /\ At(r, "insert") /\ reqs[r].route = "tl_create"
    /\ nextTid <= MaxTaskLogs
    /\ \E c \in Conns, notes \in CreateNotes :
        LET hid == TriggerHospitalId(c, reqs[r].id)
            row == [id |-> nextTid, patient_id |-> reqs[r].id,
                    user_id |-> reqs[r].user.id, hospital_id |-> hid,
                    notes |-> notes]
        IN  IF \/ PolicyError(c)
               \/ ~Visible(c, hid)
               \/ PatientGone(reqs[r].id)
               \/ reqs[r].user.id \notin DOMAIN users
              THEN /\ Reply(r, 500, "Server error")
                   /\ UNCHANGED task_logs
              ELSE /\ task_logs' = task_logs \cup {row}
                   /\ reqs' = [reqs EXCEPT ![r] =
                         [@ EXCEPT !.pc = "read", !.tid = nextTid,
                                   !.qvar = sessionVar[c]]]
    /\ nextTid' = nextTid + 1
    /\ UNCHANGED <<hospitals, users, patients, nextPid, rls, sessionVar>>

\* POST /: "Get the full task log with patient and user info", then 201.
TlCreateRead(r) ==
    /\ At(r, "read") /\ reqs[r].route = "tl_create"
    /\ \E c \in Conns :
        IF PolicyError(c)
          THEN Reply(r, 500, "Server error")
          ELSE ReplyRows(r, 201, "Task log created successfully", c, {},
                         FullTaskLog(c, reqs[r].tid))
    /\ UNCHANGED <<dbVars, sessionVar>>

\* SELECT user_id FROM task_logs WHERE id = $1
TaskLogById(c, id) ==
    {tl \in task_logs : tl.id = id /\ Visible(c, tl.hospital_id)}

\* PUT /:id: "Only allow creator or admin to edit"; TRUE iff it answers 403.
EditDenied(row, user) == row.user_id # user.id /\ user.role # "admin"

\* PUT /:id: validation, the existence check, the permission check and the
\* dynamic SET list.  Of the body only notes is modelled: UNDEF is a body
\* without fields.
TlPutCheck(r) ==
    /\ At(r, "handler") /\ reqs[r].route = "tl_put"
    /\ \E c \in Conns, valid \in BOOLEAN, id \in TaskLogIds,
          notes \in {UNDEF} \cup Notes :
        LET q == [reqs[r] EXCEPT !.valid = valid, !.id = id]
            end(st, msg) == reqs' = [reqs EXCEPT ![r] =
                      [q EXCEPT !.pc = "done", !.status = st, !.body = msg]]
            endq(st, msg) == reqs' = [reqs EXCEPT ![r] =
                      [q EXCEPT !.pc = "done", !.status = st, !.body = msg,
                                !.qvar = sessionVar[c]]]
        IN  IF ~valid
              THEN end(400, "validation errors")
            ELSE IF PolicyError(c)
              THEN end(500, "Server error")
            ELSE IF TaskLogById(c, id) = {}
              THEN endq(404, "Task log not found")
            ELSE IF \E tl \in TaskLogById(c, id) : EditDenied(tl, reqs[r].user)
              THEN endq(403, "You can only edit your own task logs")
            ELSE IF notes = UNDEF
              THEN endq(400, "No valid fields to update")
            ELSE reqs' = [reqs EXCEPT ![r] =
                      [q EXCEPT !.pc = "write", !.notes = notes,
                                !.qvar = sessionVar[c]]]
    /\ UNCHANGED <<dbVars, sessionVar>>

\* PUT /:id: UPDATE task_logs SET ... WHERE id = $n RETURNING *; the handler
\* does not look at the result.
TlPutRun(r) ==
    /\ At(r, "write") /\ reqs[r].route = "tl_put"
    /\ \E c \in Conns :
        LET old == TaskLogById(c, reqs[r].id)
            new == {[tl EXCEPT !.notes = reqs[r].notes] : tl \in old}
        IN  IF PolicyError(c)
              THEN /\ Reply(r, 500, "Server error")
                   /\ UNCHANGED task_logs
              ELSE /\ task_logs' = (task_logs \ old) \cup new
                   /\ reqs' = [reqs EXCEPT ![r] =
                         [@ EXCEPT !.pc = "read", !.qvar = sessionVar[c],
                                   !.hit = {tl.hospital_id : tl \in old}]]
    /\ UNCHANGED <<hospitals, users, patients, nextPid, nextTid, rls,
                   sessionVar>>

\* PUT /:id: "Get the full updated task log", then 200.
TlPutRead(r) ==
    /\ At(r, "read") /\ reqs[r].route = "tl_put"
    /\ \E c \in Conns :
        IF PolicyError(c)
          THEN Reply(r, 500, "Server error")
          ELSE ReplyRows(r, 200, "Task log updated successfully", c, {},
                         FullTaskLog(c, reqs[r].id))
    /\ UNCHANGED <<dbVars, sessionVar>>

\* DELETE /:id: the rows DELETE FROM task_logs WHERE id = $1 removes.  The
\* handler selects by id alone.
DeleteTargets(c, id, user) == TaskLogById(c, id)

\* DELETE /:id: requireRole, then the DELETE.
TlDelete(r) ==
    /\ At(r, "handler") /\ reqs[r].route = "tl_delete"
    /\ \E c \in Conns, id \in TaskLogIds :
        LET q == [reqs[r] EXCEPT !.id = id, !.pc = "done"]
            gone == DeleteTargets(c, id, reqs[r].user)
        IN  IF RoleDenied(reqs[r].user, {"admin"})
              THEN /\ Reply(r, 403, "Access denied: insufficient permissions")
                   /\ UNCHANGED task_logs
            ELSE IF PolicyError(c)
              THEN /\ reqs' = [reqs EXCEPT ![r] =
                         [q EXCEPT !.status = 500, !.body = "Server error"]]
                   /\ UNCHANGED task_logs
            ELSE IF gone = {}
              THEN /\ reqs' = [reqs EXCEPT ![r] =
                         [q EXCEPT !.status = 404, !.body = "Task log not found",
                                   !.qvar = sessionVar[c]]]
                   /\ UNCHANGED task_logs
            ELSE /\ task_logs' = task_logs \ gone
                 /\ reqs' = [reqs EXCEPT ![r] =
                       [q EXCEPT !.status = 200,
                                 !.body = "Task log deleted successfully",
                                 !.qvar = sessionVar[c],
                                 !.hit = {tl.hospital_id : tl \in gone}]]
    /\ UNCHANGED <<hospitals, users, patients, nextPid, nextTid, rls,
                   sessionVar>>

\* GET /patient/:patientId: "Verify patient exists".
TlPatientCheck(r) ==
    /\ At(r, "handler") /\ reqs[r].route = "tl_patient"
    /\ \E c \in Conns, patientId \in PatientIds :
        LET q == [reqs[r] EXCEPT !.id = patientId]
        IN  IF PolicyError(c)
              THEN reqs' = [reqs EXCEPT ![r] =
                      [q EXCEPT !.pc = "done", !.status = 500,
                                !.body = "Server error"]]
            ELSE IF PatientById(c, patientId) = {}
              THEN reqs' = [reqs EXCEPT ![r] =
                      [q EXCEPT !.pc = "done", !.status = 404,
                                !.body = "Patient not found",
                                !.qvar = sessionVar[c]]]
            ELSE reqs' = [reqs EXCEPT ![r] =
                      [q EXCEPT !.pc = "read", !.qvar = sessionVar[c],
                                !.rPatients = PatientById(c, patientId)]]
    /\ UNCHANGED <<dbVars, sessionVar>>

\* GET /patient/:patientId: FROM task_logs tl JOIN users u
\* WHERE tl.patient_id = $1, then 200 with the patient and the task logs.
TlPatientRead(r) ==
    /\ At(r, "read") /\ reqs[r].route = "tl_patient"
    /\ \E c \in Conns :
        IF PolicyError(c)
          THEN Reply(r, 500, "Server error")
          ELSE ReplyRows(r, 200, "patient taskLogs", c, reqs[r].rPatients,
                  {tl \in task_logs :
                      /\ tl.patient_id = reqs[r].id
                      /\ Visible(c, tl.hospital_id)
                      /\ \E u \in DOMAIN users :
                            u = tl.user_id /\ Visible(c, users[u].hospital_id)})
    /\ UNCHANGED <<dbVars, sessionVar>>

\* --------------------------------------- routes/auth.js (register, login)
\* SELECT ... FROM users WHERE email = $1
UsersByEmail(c, email) ==
    {u \in DOMAIN users :
        users[u].email = email /\ Visible(c, users[u].hospital_id)}

\* POST /register: validation and the "User already exists" check.  The
\* route has no authentication middleware.
RegisterCheck(r) ==
    /\ Arrives(r)
    /\ \E c \in Conns, valid \in BOOLEAN, email \in RegisterEmails :
        LET q == [reqs[r] EXCEPT !.router = "auth", !.route = "register",
                                 !.valid = valid, !.email = email]
            end(st, msg) == reqs' = [reqs EXCEPT ![r] =
                      [q EXCEPT !.pc = "done", !.status = st, !.body = msg]]
        IN  IF ~valid
              THEN end(400, "validation errors")
            ELSE IF PolicyError(c)
              THEN end(500, "Server error")
            ELSE IF UsersByEmail(c, email) # {}
              THEN end(400, "User already exists")
            ELSE reqs' = [reqs EXCEPT ![r] = [q EXCEPT !.pc = "insert"]]
    /\ UNCHANGED <<dbVars, sessionVar>>

\* A registration that puts every new user into hospital 1.
RegisterHospitalIdDefault(bodyHid) == 1

\* req.body.hospitalId || 1
RegisterHospitalId(bodyHid) == IF Truthy(bodyHid) THEN bodyHid ELSE 1

\* POST /register: bcrypt.hash, then INSERT INTO users ... RETURNING.  The
\* statement fails on the UNIQUE constraint of email, on hospital_id
\* REFERENCES hospitals(id) and on a row the policy of the session does not
\* admit.  The new id is the lowest unused one (the values a rejected INSERT
\* takes from the sequence are not modelled).
RegisterInsert(r) ==
    /\ At(r, "insert") /\ reqs[r].route = "register"
    /\ NewUserIds \ DOMAIN users # {}
    /\ \E c \in Conns, password \in Passwords, role \in {"clinician", "admin"},
          bodyHid \in {Absent, NoHospital} \cup HospitalIds :
        LET hid == RegisterHospitalId(bodyHid)
            id == CHOOSE i \in NewUserIds \ DOMAIN users :
                      \A j \in NewUserIds \ DOMAIN users : i <= j
            row == [role |-> role, hospital_id |-> hid,
                    email |-> reqs[r].email, password_hash |-> Hash(password)]
            q == [reqs[r] EXCEPT !.pc = "done", !.bodyHid = bodyHid,
                                 !.password = password]
        IN  IF \/ PolicyError(c)
               \/ ~Visible(c, hid)
               \/ hid \notin DOMAIN hospitals
               \/ \E u \in DOMAIN users : users[u].email = reqs[r].email
              THEN /\ reqs' = [reqs EXCEPT ![r] =
                         [q EXCEPT !.status = 500, !.body = "Server error"]]
                   /\ UNCHANGED users
              ELSE /\ users' = [u \in DOMAIN users \cup {id} |->
                                  IF u = id THEN row ELSE users[u]]
                   /\ reqs' = [reqs EXCEPT ![r] =
                         [q EXCEPT !.status = 201, !.id = id,
                                   !.body = "User created successfully"]]
    /\ UNCHANGED <<hospitals, patients, task_logs, nextPid, nextTid, rls,
                   sessionVar>>

\* A login that tells an unknown address from a wrong password.
UnknownEmailNotFound == [status |-> 404, body |-> "User not found"]

\* The two failure responses of POST /login (lines 331-334 and 346-349).
UnknownEmailResponse == [status |-> 400, body |-> "Invalid credentials"]
WrongPasswordResponse == [status |-> 400, body |-> "Invalid credentials"]

\* POST /login: validation and "Find user".
LoginFind(r) ==
    /\ Arrives(r)
    /\ \E c \in Conns, valid \in BOOLEAN,
          email \in RegisterEmails \cup {InitEmails[1]} :
        LET q == [reqs[r] EXCEPT !.router = "auth", !.route = "login",
                                 !.valid = valid, !.email = email]
            end(st, msg) == reqs' = [reqs EXCEPT ![r] =
                      [q EXCEPT !.pc = "done", !.status = st, !.body = msg]]
        IN  IF ~valid
              THEN end(400, "validation errors")
            ELSE IF PolicyError(c)
              THEN end(500, "Server error")
            ELSE IF UsersByEmail(c, email) = {}
              THEN end(UnknownEmailResponse.status, UnknownEmailResponse.body)
            ELSE \E u \in UsersByEmail(c, email) :
                    reqs' = [reqs EXCEPT ![r] =
                        [q EXCEPT !.pc = "compare",
                                  !.found = [id |-> u,
                                             password_hash |->
                                                 users[u].password_hash]]]
    /\ UNCHANGED <<dbVars, sessionVar>>

\* POST /login: "Check password" against the row it selected, then the
\* token and 200.
LoginCompare(r) ==
    /\ At(r, "compare") /\ reqs[r].route = "login"
    /\ \E password \in Passwords :
        LET q == [reqs[r] EXCEPT !.pc = "done", !.password = password]
        IN  IF ~Compare(password, reqs[r].found.password_hash)
              THEN reqs' = [reqs EXCEPT ![r] =
                      [q EXCEPT !.status = WrongPasswordResponse.status,
                                !.body = WrongPasswordResponse.body]]
              ELSE reqs' = [reqs EXCEPT ![r] =
                      [q EXCEPT !.status = 200, !.body = "Login successful"]]
    /\ UNCHANGED <<dbVars, sessionVar>>

\* ----------------------------------------------------- common steps
\* A pending pool.query rejects (connection lost, statement error): the
\* catch block of the middleware or handler answers.
QueryThrows(r) ==
    /\ Flushed
    /\ reqs[r].pc \in {"ctx", "ctxSet", "handler", "insert", "write", "read"}
    /\ reqs[r].pc = "handler" => reqs[r].route # "none"
    /\ reqs[r].pc = "ctx" =>
          \* setHospitalContext awaits a lookup only for a principal without
          \* hospital that sent a header or path code
          /\ ~Truthy(reqs[r].user.hospital_id)
          /\ \E hdr \in Sent(reqs[r].header), pth \in Sent(reqs[r].path) :
                hdr # Absent \/ pth # Absent
    /\ IF reqs[r].pc \in {"ctx", "ctxSet"}
         THEN Reply(r, 500, "Failed to set hospital context")
         ELSE Reply(r, 500, "Server error")
    /\ UNCHANGED <<dbVars, sessionVar>>

\* The response is sent; the slot takes the next request.
Finish(r) ==
    /\ reqs[r].pc = "done"
    /\ reqs' = [reqs EXCEPT ![r] = IdleReq]
    /\ UNCHANGED <<dbVars, sessionVar>>

\* ------------------------------------------------------------- Init
\* The state after the migrations: the sample hospitals (the last one may
\* have been deactivated), the users, no patients, no task logs, and no
\* session has SET app.current_hospital_id.
Init ==
    /\ \E a \in BOOLEAN :
         hospitals = [h \in HospitalIds |->
                        [code |-> CodeOf(h),
                         active |-> IF h = NumHospitals THEN a ELSE TRUE]]
    /\ users = UsersInit
    /\ patients = {}
    /\ task_logs = {}
    /\ nextPid = 1
    /\ nextTid = 1
    /\ rls \in BOOLEAN
    /\ sessionVar = [c \in Conns |-> UNDEF]
    /\ reqs = [r \in Slots |-> IdleReq]

\* The patients-multitenant router under concurrent requests.
NextMT ==
    \E r \in Slots :
        \/ AuthWithHospital(r)
        \/ SetHospitalContext(r)
        \/ SetSessionVariable(r)
        \/ CheckHospitalAccess(r)
        \/ MtList(r)
        \/ MtCreateCheck(r)
        \/ MtCreateInsert(r)
        \/ MtAnalytics(r)
        \/ QueryThrows(r)
        \/ Finish(r)

SpecMT == Init /\ [][NextMT]_vars

\* The patients router (middleware/auth.js, routes/patients.js).
NextPatients ==
    \E r \in Slots :
        \/ AuthPatients(r)
        \/ PList(r)
        \/ PGet(r)
        \/ PCreateCheck(r)
        \/ PCreateInsert(r)
        \/ PDeleteCheck(r)
        \/ PDeleteRun(r)
        \/ PPut(r)
        \/ QueryThrows(r)
        \/ Finish(r)

SpecPatients == Init /\ [][NextPatients]_vars

\* Patient creates through both routers.
NextCreate ==
    \E r \in Slots :
        \/ AuthWithHospital(r)
        \/ SetHospitalContext(r)
        \/ SetSessionVariable(r)
        \/ CheckHospitalAccess(r)
        \/ MtList(r)
        \/ MtCreateCheck(r)
        \/ MtCreateInsert(r)
        \/ MtAnalytics(r)
        \/ AuthPatientCreate(r)
        \/ PCreateCheck(r)
        \/ PCreateInsert(r)
        \/ QueryThrows(r)
        \/ Finish(r)

SpecCreate == Init /\ [][NextCreate]_vars

\* setHospitalContext and checkHospitalAccess behind no particular
\* authentication middleware: req.user is any principal (or undefined), and
\* checkHospitalAccess is also entered with any req.hospitalId.
UnitUsers ==
    {NoUser} \cup
    {[id |-> 9, role |-> ro, hospital_id |-> h] :
        ro \in Roles, h \in {NULL} \cup HospitalIds}

UnitContext(r) ==
    /\ Arrives(r)
    /\ \E u \in UnitUsers :
        reqs' = [reqs EXCEPT ![r] =
                    [@ EXCEPT !.router = "unit", !.pc = "ctx", !.user = u]]
    /\ UNCHANGED <<dbVars, sessionVar>>

UnitAccess(r) ==
    /\ Arrives(r)
    /\ \E u \in UnitUsers, h \in {UNDEF} \cup HospitalIds :
        reqs' = [reqs EXCEPT ![r] =
                    [@ EXCEPT !.router = "unit", !.pc = "check", !.user = u,
                              !.hospitalId = h]]
    /\ UNCHANGED <<dbVars, sessionVar>>

\* A request with any principal, header and path parameter enters
\* setHospitalContext.  The resolution of a request reads the request and
\* the hospitals table, which no request writes: one request at a time.
CtxRequest(r) ==
    /\ Arrives(r)
    /\ \A s \in Slots : reqs[s].pc = "idle"
    /\ \E u \in UnitUsers \ {NoUser}, hdr \in {Absent} \cup Codes,
          pth \in {Absent} \cup Codes :
        reqs' = [reqs EXCEPT ![r] =
                    [@ EXCEPT !.router = "unit", !.pc = "ctx", !.user = u,
                              !.header = hdr, !.path = pth]]
    /\ UNCHANGED <<dbVars, sessionVar>>

\* The layer after the middleware under test.
UnitHandler(r) ==
    /\ At(r, "handler") /\ reqs[r].route = "none"
    /\ Reply(r, 200, "handler ran")
    /\ UNCHANGED <<dbVars, sessionVar>>

NextMw ==
    \E r \in Slots :
        \/ UnitContext(r)
        \/ UnitAccess(r)
        \/ SetHospitalContext(r)
        \/ SetSessionVariable(r)
        \/ CheckHospitalAccess(r)
        \/ UnitHandler(r)
        \/ QueryThrows(r)
        \/ Finish(r)

SpecMw == Init /\ [][NextMw]_vars

\* setHospitalContext and checkHospitalAccess on requests whose header and
\* path parameter are known from the start.
NextCtx ==
    \E r \in Slots :
        \/ CtxRequest(r)
        \/ SetHospitalContext(r)
        \/ SetSessionVariable(r)
        \/ CheckHospitalAccess(r)
        \/ UnitHandler(r)
        \/ QueryThrows(r)
        \/ Finish(r)

SpecCtx == Init /\ [][NextCtx]_vars

\* The whole chain of the multi-tenant router under GET traffic.
NextPipeline ==
    \E r \in Slots :
        \/ AuthWithHospitalGet(r)
        \/ SetHospitalContext(r)
        \/ SetSessionVariable(r)
        \/ CheckHospitalAccess(r)
        \/ MtList(r)
        \/ MtAnalytics(r)
        \/ QueryThrows(r)
        \/ Finish(r)

SpecPipeline == Init /\ [][NextPipeline]_vars

\* The rows of users an administrator changes after the tokens were issued,
\* and the rows they can become.
ChangedUsers == {4}
DirectoryRows ==
    {[role |-> ro, hospital_id |-> h] :
        ro \in {"clinician", "admin"}, h \in HospitalIds}

\* UPDATE users SET role / hospital_id, or DELETE FROM users, run on the
\* database outside the API.
DirectoryChange ==
    /\ Flushed
    /\ \E u \in ChangedUsers \cap DOMAIN users :
        \/ \E row \in DirectoryRows :
              /\ row # [role |-> users[u].role,
                        hospital_id |-> users[u].hospital_id]
              /\ users' = [users EXCEPT ![u] =
                              [@ EXCEPT !.role = row.role,
                                        !.hospital_id = row.hospital_id]]
        \/ users' = [x \in DOMAIN users \ {u} |-> users[x]]
    /\ UNCHANGED <<hospitals, patients, task_logs, nextPid, nextTid, rls,
                   sessionVar, reqs>>

\* Patient creates of the patients router while the directory changes.
NextDirectory ==
    \/ DirectoryChange
    \/ \E r \in Slots :
        \/ AuthPatientCreate(r)
        \/ PCreateCheck(r)
        \/ PCreateInsert(r)
        \/ QueryThrows(r)
        \/ Finish(r)

SpecDirectory == Init /\ [][NextDirectory]_vars

\* Write traffic to the patients and the task-logs router: creates, updates
\* and deletes by the admins of the two hospitals, one request after the
\* other.
WriteTokens == {2, 3}

Alone == \A s \in Slots : reqs[s].pc = "idle"

AuthPatientWrites(r) ==
    /\ Alone
    /\ Auth(r, "patients", {"p_create", "p_put", "p_delete"}, WriteTokens)

AuthTaskLogWrites(r) ==
    /\ Alone
    /\ Auth(r, "tasklogs", {"tl_create", "tl_put", "tl_delete"}, WriteTokens)

NextWrites ==
    \E r \in Slots :
        \/ AuthPatientWrites(r)
        \/ PCreateCheck(r)
        \/ PCreateInsert(r)
        \/ PDeleteCheck(r)
        \/ PDeleteRun(r)
        \/ PPut(r)
        \/ AuthTaskLogWrites(r)
        \/ TlCreateCheck(r)
        \/ TlCreateInsert(r)
        \/ TlCreateRead(r)
        \/ TlPutCheck(r)
        \/ TlPutRun(r)
        \/ TlPutRead(r)
        \/ TlDelete(r)
        \/ QueryThrows(r)
        \/ Finish(r)

SpecWrites == Init /\ [][NextWrites]_vars

\* The public routes: registrations and logins.
NextAccounts ==
    \E r \in Slots :
        \/ RegisterCheck(r)
        \/ RegisterInsert(r)
        \/ LoginFind(r)
        \/ LoginCompare(r)
        \/ QueryThrows(r)
        \/ Finish(r)

SpecAccounts == Init /\ [][NextAccounts]_vars

\* The database after two admins created a patient each, one per hospital.
SeedPatients ==
    {[id |-> 1, hospital_id |-> 1, mrn |-> "M1", room |-> NULL],
     [id |-> 2, hospital_id |-> 2, mrn |-> "M2", room |-> NULL]}

InitSeeded ==
    /\ hospitals = [h \in HospitalIds |-> [code |-> CodeOf(h), active |-> TRUE]]
    /\ users = UsersInit
    /\ patients = SeedPatients
    /\ task_logs = {}
    /\ nextPid = 3
    /\ nextTid = 1
    /\ rls \in BOOLEAN
    /\ sessionVar = [c \in Conns |-> UNDEF]
    /\ reqs = [r \in Slots |-> IdleReq]

\* Patient deletes racing task-log creates, by the admins of the two
\* hospitals.
AuthPatientDelete(r) == Auth(r, "patients", {"p_delete"}, WriteTokens)

AuthTaskLogCreate(r) == Auth(r, "tasklogs", {"tl_create"}, WriteTokens)

NextCascade ==
    \E r \in Slots :
        \/ AuthPatientDelete(r)
        \/ PDeleteCheck(r)
        \/ PDeleteRun(r)
        \/ AuthTaskLogCreate(r)
        \/ TlCreateCheck(r)
        \/ TlCreateInsert(r)
        \/ TlCreateRead(r)
        \/ QueryThrows(r)
        \/ Finish(r)

SpecCascade == InitSeeded /\ [][NextCascade]_vars

\* The task-logs router (middleware/auth.js, routes/tasklogs.js).
NextTaskLogs ==
    \E r \in Slots :
        \/ AuthTaskLogs(r)
        \/ TlList(r)
        \/ TlGet(r)
        \/ TlCreateCheck(r)
        \/ TlCreateInsert(r)
        \/ TlCreateRead(r)
        \/ TlPutCheck(r)
        \/ TlPutRun(r)
        \/ TlPutRead(r)
        \/ TlDelete(r)
        \/ TlPatientCheck(r)
        \/ TlPatientRead(r)
        \/ QueryThrows(r)
        \/ Finish(r)

SpecTaskLogs == InitSeeded /\ [][NextTaskLogs]_vars

\* ================================================================ claims
Done(r) == reqs[r].pc = "done"

\* A principal of a tenant that is not super_admin.
TenantUser(r) ==
    /\ reqs[r].user # NoUser
    /\ reqs[r].user.role # "super_admin"
    /\ Truthy(reqs[r].user.hospital_id)

\* C1: a request of a non-super_admin principal with home tenant T returns
\* no patient row and no task-log row of another tenant, on any route.
C1_NoForeignRows ==
    \A r \in Slots :
        TenantUser(r) =>
            /\ \A p \in reqs[r].rPatients :
                  p.hospital_id = reqs[r].user.hospital_id
            /\ \A tl \in reqs[r].rLogs :
                  tl.hospital_id = reqs[r].user.hospital_id

\* C2: under any interleaving of concurrent requests, the patient list and
\* the analytics of the multi-tenant router range only over rows whose
\* hospital_id is the tenant resolved for that same request.
C2_OwnTenantRows ==
    \A r \in Slots :
        (reqs[r].router = "mt" /\ reqs[r].route \in {"mt_list", "mt_analytics"})
        => /\ \A p \in reqs[r].rPatients : p.hospital_id = reqs[r].hospitalId
           /\ \A tl \in reqs[r].rLogs : tl.hospital_id = reqs[r].hospitalId

\* A list answered with rows by a query that ran on a connection whose
\* session variable is not the request's tenant, while a request of another
\* tenant is in flight and patients of another tenant exist.
C2_Witness ==
    \E r, o \in Slots :
        /\ r # o
        /\ Done(r) /\ reqs[r].route = "mt_list" /\ reqs[r].status = 200
        /\ reqs[r].rPatients # {}
        /\ reqs[r].qvar # reqs[r].hospitalId
        /\ reqs[o].hospitalId \notin {UNDEF, reqs[r].hospitalId}
        /\ \E p \in patients : p.hospital_id # reqs[r].hospitalId

\* The tenant of the context of a request: req.hospitalId behind the
\* multi-tenant middleware, the hospital of the principal behind auth.
ContextTenant(r) ==
    IF reqs[r].router = "mt" THEN reqs[r].hospitalId
    ELSE reqs[r].user.hospital_id

\* C3: a successful patient create of either router stores a patient whose
\* hospital_id is the tenant of the principal's context, whatever hospitalId
\* the body carries.
C3_CreateUsesContextTenant ==
    \A r \in Slots :
        (Done(r) /\ reqs[r].route \in {"mt_create", "p_create"}
                 /\ reqs[r].status = 201)
        => /\ reqs[r].rPatients # {}
           /\ \A p \in reqs[r].rPatients :
                 p \in patients /\ p.hospital_id = ContextTenant(r)

\* The multi-tenant router answers 201 to a body naming another hospital
\* while a create of the patients router is about to insert.
C3_Witness ==
    \E r, o \in Slots :
        /\ Done(r) /\ reqs[r].route = "mt_create" /\ reqs[r].status = 201
        /\ reqs[r].bodyHid \notin {Absent, ContextTenant(r)}
        /\ reqs[o].route = "p_create" /\ reqs[o].pc = "insert"

\* C4: every query of a request on patients or task_logs runs on a
\* connection whose app.current_hospital_id is that request's tenant.
C4_SessionVarIsOwnTenant ==
    \A r \in Slots :
        (reqs[r].router = "mt" /\ reqs[r].qvar # NoQuery)
        => reqs[r].qvar = reqs[r].hospitalId

\* C5: within a request, resolution precedes the access check, the access
\* check precedes the binding of req.hospitalId and the session variable,
\* and the binding precedes every data operation.
C5_PipelineOrder ==
    \A r \in Slots :
        /\ reqs[r].checked => reqs[r].pc \notin {"idle", "ctx"}
        /\ reqs[r].hospitalId # UNDEF => reqs[r].checked
        /\ reqs[r].qvar # NoQuery => reqs[r].hospitalId # UNDEF

\* C6: checkHospitalAccess calls next() iff the role is super_admin or the
\* principal's hospital_id equals req.hospitalId; otherwise it answers 403
\* and the handler does not run.
C6_AccessGuard ==
    \A r \in Slots :
        (reqs[r].router = "unit" /\ reqs[r].checked /\ reqs[r].user # NoUser)
        => IF \/ reqs[r].user.role = "super_admin"
              \/ reqs[r].user.hospital_id = reqs[r].hospitalId
             THEN \/ reqs[r].pc = "handler"
                  \/ Done(r) /\ reqs[r].status = 200
                             /\ reqs[r].body = "handler ran"
             ELSE /\ Done(r) /\ reqs[r].status = 403
                  /\ reqs[r].body =
                       "Access denied: You can only access your assigned hospital"

\* Both outcomes at once: an admin of one hospital answered 403 for another
\* hospital, and a super_admin past the check for a hospital that is not its own.
C6_Witness ==
    \E r, o \in Slots :
        /\ Done(r) /\ reqs[r].status = 403 /\ reqs[r].checked
        /\ reqs[r].user.role = "admin"
        /\ reqs[r].user.hospital_id \in HospitalIds
        /\ reqs[r].hospitalId \in HospitalIds
        /\ reqs[o].pc = "handler" /\ reqs[o].user.role = "super_admin"
        /\ reqs[o].user.hospital_id # reqs[o].hospitalId

\* C7: an update or delete by id changes or removes only rows whose
\* hospital_id is the tenant of the requesting principal.
C7_WritesOwnTenantOnly ==
    \A r \in Slots :
        TenantUser(r) => \A h \in reqs[r].hit : h = reqs[r].user.hospital_id

\* C8: DELETE of a task log of another tenant by an admin of tenant T is
\* answered like a task-log id that does not exist: 404 "Task log not found".
C8_ForeignTaskLogDeleteLooksAbsent ==
    \A r \in Slots :
        (/\ Done(r) /\ reqs[r].route = "tl_delete"
         /\ TenantUser(r) /\ reqs[r].user.role = "admin"
         /\ \/ \E h \in reqs[r].hit : h # reqs[r].user.hospital_id
            \/ \E tl \in task_logs :
                  tl.id = reqs[r].id /\ tl.hospital_id # reqs[r].user.hospital_id)
        => reqs[r].status = 404 /\ reqs[r].body = "Task log not found"

\* C9: DELETE of a patient that exists in another tenant is answered with
\* the status and body of a patient id that does not exist.
C9_ForeignPatientDeleteLooksAbsent ==
    \A r \in Slots :
        (/\ Done(r) /\ reqs[r].route = "p_delete"
         /\ TenantUser(r) /\ reqs[r].user.role = "admin"
         /\ \E p \in patients :
               p.id = reqs[r].id /\ p.hospital_id # reqs[r].user.hospital_id)
        => reqs[r].status = 404 /\ reqs[r].body = "Patient not found"

\* C10: no query on patients or task_logs runs for a request that has no
\* tenant context (neither req.hospitalId nor a hospital of the principal).
C10_NoUnscopedDataOp ==
    \A r \in Slots :
        reqs[r].qvar # NoQuery
        => \/ reqs[r].hospitalId # UNDEF
           \/ Truthy(reqs[r].user.hospital_id)

\* The request has left the resolution of setHospitalContext.
Resolved(r) == reqs[r].pc \notin {"idle", "ctx"}

\* C11: a super_admin whose X-Hospital-Code header names an active hospital
\* other than its own gets req.hospitalId bound to the hospital of the
\* header and is not refused by checkHospitalAccess.
C11_SuperAdminOverride ==
    \A r \in Slots :
        (/\ reqs[r].router = "unit" /\ Resolved(r)
         /\ reqs[r].user.role = "super_admin"
         /\ reqs[r].header \in Codes
         /\ ResolveCode(reqs[r].header) # NULL
         /\ ResolveCode(reqs[r].header) # reqs[r].user.hospital_id)
        => /\ reqs[r].hospitalId = ResolveCode(reqs[r].header)
           /\ reqs[r].status # 403

\* C12: through authWithHospital and setHospitalContext, a request whose
\* token verifies and names a stored user without a hospital, and which
\* carries neither header nor path code, is answered 400 "Hospital context
\* required".
C12_NoSignalRequiresContext ==
    \A r \in Slots :
        (/\ Done(r) /\ reqs[r].router = "mt_get"
         /\ reqs[r].token \in DOMAIN users
         /\ users[reqs[r].token].hospital_id = NULL
         /\ reqs[r].header = Absent /\ reqs[r].path = Absent)
        => reqs[r].status = 400 /\ reqs[r].body = "Hospital context required"

\* The code the resolution order selects (the header, else the path
\* parameter) names a hospital whose active flag is false.
InactiveSignal(r) ==
    LET code == IF reqs[r].header # Absent THEN reqs[r].header
                ELSE reqs[r].path
    IN  \E h \in DOMAIN hospitals :
            hospitals[h].code = code /\ ~hospitals[h].active

\* C13: when the header or path code names an inactive hospital,
\* setHospitalContext answers with the unknown-hospital response, leaves
\* req.hospitalId unset, runs no SET and does not call next().  Stated for
\* the principals whose code is a signal: those without a hospital and
\* super_admin, who may name a hospital other than their own.
C13_InactiveTenantFails ==
    \A r \in Slots :
        (/\ reqs[r].router = "unit" /\ Resolved(r) /\ InactiveSignal(r)
         /\ \/ ~Truthy(reqs[r].user.hospital_id)
            \/ reqs[r].user.role = "super_admin")
        => /\ Done(r)
           /\ \/ reqs[r].status = 400 /\ reqs[r].body = "Invalid hospital code"
              \/ reqs[r].status = 404 /\ reqs[r].body = "Hospital not found"
           /\ reqs[r].hospitalId = UNDEF

\* The token is missing, fails verification, names no stored user, or names
\* a user whose hospital is inactive.
BadCredential(tok) ==
    \/ tok \in {NoToken, BadToken}
    \/ tok \notin DOMAIN users
    \/ \E h \in DOMAIN hospitals :
          users[tok].hospital_id = h /\ ~hospitals[h].active

\* C14: on every route behind auth or authWithHospital a request with such a
\* token is answered 401 and reaches no handler.
C14_BadCredentialRejected ==
    \A r \in Slots :
        (reqs[r].pc # "idle" /\ BadCredential(reqs[r].token))
        => Done(r) /\ reqs[r].status = 401 /\ reqs[r].route = "none"

C16_BindingCleared ==
    \A c \in Conns :
        \/ sessionVar[c] = UNDEF
        \/ \E r \in Slots :
              reqs[r].pc # "idle" /\ reqs[r].hospitalId = sessionVar[c]

\* C17: a task-log create passes the patient check, and stores a task log,
\* only when the hospital_id of the patient it names is the tenant of the
\* requesting principal.
C17_TaskLogCreateOwnTenant ==
    /\ \A r \in Slots :
          (/\ reqs[r].route = "tl_create" /\ TenantUser(r)
           /\ \/ reqs[r].pc \in {"insert", "read"}
              \/ Done(r) /\ reqs[r].status = 201)
          => \A p \in patients :
                p.id = reqs[r].id => p.hospital_id = reqs[r].user.hospital_id
    /\ \A tl \in task_logs : \A p \in patients :
          (p.id = tl.patient_id /\ tl.user_id \in DOMAIN users
           /\ Truthy(users[tl.user_id].hospital_id))
          => p.hospital_id = users[tl.user_id].hospital_id

\* C18: in every reachable state each task log refers to a stored patient
\* and carries the hospital_id of that patient.
C18_TaskLogTenantIsPatientTenant ==
    \A tl \in task_logs :
        \E p \in patients :
            p.id = tl.patient_id /\ tl.hospital_id = p.hospital_id

\* A task log written by a user of another hospital than its patient's and
\* then updated, next to an updated patient, after a patient was deleted.
C18_Witness ==
    /\ \E tl \in task_logs :
          /\ tl.notes # NULL
          /\ users[tl.user_id].hospital_id # tl.hospital_id
    /\ \E p \in patients : p.room # NULL
    /\ Cardinality(patients) < nextPid - 1

\* C19: no step changes the hospital_id of a stored patient or task log.
C19_TenantImmutable ==
    [][/\ \A p \in patients : \A q \in patients' :
              q.id = p.id => q.hospital_id = p.hospital_id
       /\ \A tl \in task_logs : \A ul \in task_logs' :
              ul.id = tl.id => ul.hospital_id = tl.hospital_id
      ]_vars

\* An admin has just updated a patient of another hospital, and a task log
\* has been updated.
C19_Witness ==
    /\ \E r \in Slots :
          /\ Done(r) /\ reqs[r].route = "p_put" /\ reqs[r].status = 200
          /\ \E h \in reqs[r].hit : h # reqs[r].user.hospital_id
    /\ \E tl \in task_logs : tl.notes # NULL

\* Request r is bound to the active hospital with the given code.
BoundToCode(r, code) ==
    \E h \in DOMAIN hospitals :
        /\ hospitals[h].code = code /\ hospitals[h].active
        /\ reqs[r].hospitalId = h

\* Request r was answered by the resolution with the given status and body
\* and without a tenant.
FailedWith(r, st, msg) ==
    /\ Done(r) /\ reqs[r].status = st /\ reqs[r].body = msg
    /\ reqs[r].hospitalId = UNDEF

\* The lookup of the code was rejected by the database.
LookupFailed(r) == FailedWith(r, 500, "Failed to set hospital context")

\* C20: setHospitalContext takes the first applicable signal: the hospital
\* of the principal; else the header code among the active hospitals, failing
\* with 400 when it names none, whatever the path; else the path code among
\* the active hospitals, failing with 404; else it fails with 400.  A lookup
\* the database rejects is answered 500.
C20_ResolutionOrder ==
    \A r \in Slots :
        (reqs[r].router = "unit" /\ Resolved(r) /\ reqs[r].header # Unread)
        => LET u == reqs[r].user
               hdr == reqs[r].header
               pth == reqs[r].path
               known(code) == \E h \in DOMAIN hospitals :
                                 hospitals[h].code = code /\ hospitals[h].active
           IN  IF Truthy(u.hospital_id)
                 THEN reqs[r].hospitalId = u.hospital_id
               ELSE IF hdr # Absent
                 THEN \/ LookupFailed(r)
                      \/ IF known(hdr) THEN BoundToCode(r, hdr)
                         ELSE FailedWith(r, 400, "Invalid hospital code")
               ELSE IF pth # Absent
                 THEN \/ LookupFailed(r)
                      \/ IF known(pth) THEN BoundToCode(r, pth)
                         ELSE FailedWith(r, 404, "Hospital not found")
               ELSE FailedWith(r, 400, "Hospital context required")

\* A principal without hospital sent an unknown header code together with
\* the path code of an active hospital and was answered 400.
C20_Witness ==
    \E r \in Slots :
        /\ reqs[r].router = "unit" /\ ~Truthy(reqs[r].user.hospital_id)
        /\ reqs[r].header = UnknownCode
        /\ ResolveCode(reqs[r].path) # NULL
        /\ FailedWith(r, 400, "Invalid hospital code")

\* The response of a create that found the MRN in the hospital.
DuplicateMrn == "Medical record number already exists in this hospital"

\* C21: a medical record number is unique per hospital, not globally: a
\* create is answered as a duplicate only when a patient of the same hospital
\* has the MRN, and an INSERT whose MRN no patient of the same hospital has
\* succeeds, also when a patient of another hospital has it.  (The INSERT ran
\* iff the sequence advanced; without row level security nothing else can
\* reject it.)
C21_MrnUniquePerHospital ==
    [][\A r \in Slots :
        LET tenant == ContextTenant(r)
            sameHospital(mrn) ==
                \E p \in patients : p.mrn = mrn /\ p.hospital_id = tenant
        IN  /\ (/\ reqs[r].pc = "handler"
                /\ reqs[r].route \in {"mt_create", "p_create"}
                /\ reqs'[r].body = DuplicateMrn)
               => sameHospital(reqs'[r].mrn)
            /\ (/\ reqs[r].pc = "insert"
                /\ reqs[r].route \in {"mt_create", "p_create"}
                /\ reqs'[r].pc = "done" /\ nextPid' # nextPid /\ ~rls
                /\ ~sameHospital(reqs[r].mrn))
               => reqs'[r].status = 201
      ]_vars

\* The code setHospitalContext looked up for request r: the header, else the
\* path parameter; Absent when it looked nothing up.
LookedUp(r) ==
    IF Truthy(reqs[r].user.hospital_id) \/ ~Resolved(r) THEN Absent
    ELSE IF reqs[r].header \in Codes THEN reqs[r].header
    ELSE IF reqs[r].header = Absent /\ reqs[r].path \in Codes THEN reqs[r].path
    ELSE Absent

RegisteredInto(r) ==
    /\ reqs'[r].status = 201
    /\ \E u \in DOMAIN users' \ DOMAIN users :
          /\ users'[u].email = reqs[r].email
          /\ users'[u].hospital_id =
                IF reqs'[r].bodyHid # Absent THEN reqs'[r].bodyHid ELSE 1

\* The address of the registration of request r is free and no row level
\* security applies: nothing about the account rejects the INSERT.
FreeAddress(r) ==
    /\ ~rls
    /\ \A u \in DOMAIN users : users[u].email # reqs[r].email

ContextBranchAnswers ==
    {"Invalid hospital code", "Hospital not found", "Hospital context required",
     "Access denied: You can only access your assigned hospital"}

MiddlewarePcs == {"idle", "ctx", "ctxSet", "check"}

NextLayer(pc) ==
    CASE pc = "idle" -> "ctx"
      [] pc = "ctx" -> "ctxSet"
      [] pc = "ctxSet" -> "check"
      [] pc = "check" -> "handler"

ErrorAnswered(q) == q.pc = "done" /\ q.status \in {400, 401, 403, 404, 500}

C25_MiddlewareEndsOneWay ==
    [][\A r \in Slots :
          reqs'[r] # reqs[r] =>
            /\ reqs[r].pc = "done" => reqs'[r] = IdleReq
            /\ reqs[r].pc \in MiddlewarePcs =>
                  \/ ErrorAnswered(reqs'[r])
                  \/ /\ reqs'[r].pc = NextLayer(reqs[r].pc)
                     /\ reqs'[r].status = 0 /\ reqs'[r].body = ""
            /\ (reqs[r].pc \in MiddlewarePcs /\ QueryThrows(r)) =>
                  ErrorAnswered(reqs'[r])
            /\ (reqs[r].pc = "idle" /\ reqs'[r].token = BadToken) =>
                  ErrorAnswered(reqs'[r])
      ]_vars

C25_Witness ==
    \E r, s \in Slots :
        /\ Done(r) /\ reqs[r].router = "mt"
        /\ reqs[r].status = 500 /\ reqs[r].body = "Failed to set hospital context"
        /\ reqs[s].router = "mt" /\ reqs[s].pc = "handler" /\ reqs[s].status = 0

\* C26: however concurrent patient creates interleave, no two stored patients
\* of the same hospital have the same medical record number.
C26_NoDuplicateMrnInHospital ==
    \A p1, p2 \in patients :
        (p1.id # p2.id /\ p1.hospital_id = p2.hospital_id) => p1.mrn # p2.mrn

\* A create passed its existence check and then lost the race: its INSERT
\* failed while a patient of its hospital holds the number.
C26_Witness ==
    \E r \in Slots :
        /\ Done(r) /\ reqs[r].route \in {"mt_create", "p_create"}
        /\ reqs[r].status = 500 /\ reqs[r].qvar # NoQuery
        /\ \E p \in patients :
              /\ p.mrn = reqs[r].mrn
              /\ p.hospital_id = reqs[r].user.hospital_id

\* C27: however patient deletes and task-log creates interleave, every stored
\* task log references a stored patient (so a deleted patient leaves no task
\* log behind).
C27_TaskLogsReferencePatients ==
    \A tl \in task_logs : \E p \in patients : p.id = tl.patient_id

\* A patient was deleted after a create of a task log for it passed its
\* existence check and before the INSERT of that create ran.
C27_Witness ==
    \E r, s \in Slots :
        /\ Done(s) /\ reqs[s].route = "p_delete" /\ reqs[s].status = 200
        /\ reqs[s].rPatients # {}
        /\ reqs[r].route = "tl_create" /\ reqs[r].pc = "insert"
        /\ reqs[r].id = reqs[s].id
        /\ PatientGone(reqs[r].id)

\* C28: PUT /api/task-logs/:id answers 'Task log updated successfully' only
\* when its UPDATE changed a row and the response carries that row.
C28_UpdatedAnswerCarriesRow ==
    \A r \in Slots :
        (/\ Done(r) /\ reqs[r].route = "tl_put"
         /\ reqs[r].body = "Task log updated successfully") =>
            /\ reqs[r].hit # {}
            /\ \E tl \in reqs[r].rLogs :
                  tl.id = reqs[r].id /\ tl.notes = reqs[r].notes

\* C29: a login that is refused for its credentials is answered 400 'Invalid
\* credentials', the same whether no user has the address or the password
\* does not match the stored hash.
FailedLogin(r) ==
    /\ Done(r) /\ reqs[r].route = "login" /\ reqs[r].valid
    /\ reqs[r].status \notin {200, 500}

UnknownEmail(r) == reqs[r].found = NoRow

C29_FailedLoginsAlike ==
    \A r \in Slots :
        FailedLogin(r) =>
            /\ reqs[r].status = 400
            /\ reqs[r].body = "Invalid credentials"
            /\ UnknownEmail(r) \/
                  ~Compare(reqs[r].password, reqs[r].found.password_hash)

\* A login with an unknown address has been refused while a login that
\* found its user is about to compare the password.
C29_Witness ==
    \E r, s \in Slots :
        /\ FailedLogin(r) /\ UnknownEmail(r)
        /\ reqs[r].email \notin {users[u].email : u \in DOMAIN users}
        /\ reqs[s].route = "login" /\ reqs[s].pc = "compare"
        /\ reqs[s].found.id \in DOMAIN users

====
